---- MODULE Spec2Model ----
(***************************************************************************)
(* Model of lib/estimation.js: the package quality estimation pipeline.    *)
(*                                                                         *)
(* exports.estimate validates the entry and runs an async.waterfall of     *)
(* four stages (repo issues, downloads, registry, versions).  Every stage  *)
(* and every request callback is one step of the model.  Numbers are exact *)
(* rationals extended with the IEEE values -Infinity, +Infinity and NaN    *)
(* that the code's divisions by zero produce.  Strings that the code takes *)
(* apart (repository URLs) are sequences of one-character strings.         *)
(***************************************************************************)
EXTENDS Integers, Sequences, FiniteSets, TLC

\* ------------------------------------------------------------------ bounds
\* longest issue list a response carries
MaxIssues == 2
\* longest download series a response carries
MaxSamples == 2
\* largest daily download count in a sample
MaxCount == 2
\* largest number of keys in a registry versions map
MaxVersions == 3

\* ----------------------------------------------------------------- strings
\* 'git@github.com:' (line 236)
GitAtPrefix ==
    <<"g","i","t","@","g","i","t","h","u","b",".","c","o","m",":">>

\* 'git://github.com:' (line 240)
GitProtoPrefix ==
    <<"g","i","t",":","/","/","g","i","t","h","u","b",".","c","o","m",":">>

\* '.git' (line 258)
DotGit == <<".","g","i","t">>

\* the separator of remaining.split('/') (line 249)
Slash == "/"

\* String.prototype.startsWith
startsWith(s, p) ==
    /\ Len(p) <= Len(s)
    /\ SubSeq(s, 1, Len(p)) = p

\* String.prototype.indexOf, 1-based; 0 when str does not occur in s
indexOf(s, str) ==
    LET hits == {i \in 1..(Len(s) - Len(str) + 1) :
                    SubSeq(s, i, i + Len(str) - 1) = str}
    IN  IF hits = {} THEN 0
        ELSE CHOOSE i \in hits : \A j \in hits : i <= j

\* prototypes' substringFrom: what follows the first occurrence of str,
\* the empty string when str does not occur
substringFrom(s, str) ==
    IF indexOf(s, str) = 0 THEN <<>>
    ELSE SubSeq(s, indexOf(s, str) + Len(str), Len(s))

\* prototypes' substringUpTo: what precedes the first occurrence of str,
\* the whole string when str does not occur
substringUpTo(s, str) ==
    IF indexOf(s, str) = 0 THEN s
    ELSE SubSeq(s, 1, indexOf(s, str) - 1)

\* String.prototype.split(sep) for a one-character separator
RECURSIVE split(_, _)
split(s, sep) ==
    IF indexOf(s, <<sep>>) = 0 THEN <<s>>
    ELSE <<SubSeq(s, 1, indexOf(s, <<sep>>) - 1)>>
         \o split(SubSeq(s, indexOf(s, <<sep>>) + 1, Len(s)), sep)

\* ------------------------------------------------------------- RepoLocator
\* what extractRepoInfo returns when it returns null (lines 229, 234)
NullInfo == [valid |-> FALSE, owner |-> <<>>, name |-> <<>>]

\* the empty object {} of line 253: its valid field is undefined, so falsy
EmptyInfo == [valid |-> FALSE, owner |-> <<>>, name |-> <<>>]

\* variant of extractPieces that only rejects too few pieces
extractPiecesAtLeast(remaining, initial) ==
    LET pieces == split(remaining, Slash)
    IN  IF Len(pieces) < initial + 2 THEN EmptyInfo
        ELSE [valid |-> TRUE,
              owner |-> pieces[initial + 1],
              name  |-> substringUpTo(pieces[initial + 2], DotGit)]

\* extractPieces(remaining, initial); pieces are 0-based in the code
extractPieces(remaining, initial) ==
    LET pieces == split(remaining, Slash)
    IN  IF Len(pieces) # initial + 2 THEN EmptyInfo
        ELSE [valid |-> TRUE,
              owner |-> pieces[initial + 1],
              name  |-> substringUpTo(pieces[initial + 2], DotGit)]

\* A repository descriptor: present says whether entry.repository is an
\* object; type and url are strings, the empty string standing for a
\* missing (undefined) or empty field: both are falsy at line 226.
NoRepo == [present |-> FALSE, type |-> "", url |-> <<>>]

\* variant of extractRepoInfo without the 'git://github.com:' branch
extractRepoInfoNoProto(repo) ==
    IF ~repo.present \/ repo.type = "" \/ repo.url = <<>> THEN NullInfo
    ELSE IF repo.type # "git" THEN NullInfo
    ELSE IF startsWith(repo.url, GitAtPrefix)
         THEN extractPieces(substringFrom(repo.url, GitAtPrefix), 0)
    ELSE extractPieces(repo.url, 3)

\* extractRepoInfo (lines 223-245)
extractRepoInfo(repo) ==
    IF ~repo.present \/ repo.type = "" \/ repo.url = <<>> THEN NullInfo
    ELSE IF repo.type # "git" THEN NullInfo
    ELSE IF startsWith(repo.url, GitAtPrefix)
         THEN extractPieces(substringFrom(repo.url, GitAtPrefix), 0)
    ELSE IF startsWith(repo.url, GitProtoPrefix)
         THEN extractPieces(substringFrom(repo.url, GitProtoPrefix), 0)
    ELSE extractPieces(repo.url, 3)

\* ----------------------------------------------------------------- numbers
\* A JavaScript number: a rational n/d in lowest terms with d > 0, or one of
\* the IEEE values the code's arithmetic can produce.  kind "none" is the
\* absence of a number (an argument that was not passed).
RECURSIVE GCD(_, _)
GCD(a, b) == IF b = 0 THEN a ELSE GCD(b, a % b)

Abs(a) == IF a < 0 THEN -a ELSE a

Num(n, d) ==
    LET g == GCD(Abs(n), Abs(d))
        s == IF d < 0 THEN -1 ELSE 1
    IN  [kind |-> "num", n |-> (s * n) \div g, d |-> (s * d) \div g]

Zero == Num(0, 1)
One == Num(1, 1)
NegInf == [kind |-> "ninf", n |-> -1, d |-> 0]
PosInf == [kind |-> "pinf", n |-> 1, d |-> 0]
NaN == [kind |-> "nan", n |-> 0, d |-> 0]
NoNumber == [kind |-> "none", n |-> 0, d |-> 0]

\* sign of a number that is not NaN: -1, 0 or 1
Sign(x) ==
    IF x.kind = "pinf" THEN 1
    ELSE IF x.kind = "ninf" THEN -1
    ELSE IF x.n > 0 THEN 1 ELSE IF x.n < 0 THEN -1 ELSE 0

\* the operator / of lines 126, 160 and 219
jsDiv(a, b) ==
    IF a.kind = "nan" \/ b.kind = "nan" THEN NaN
    ELSE IF a.kind # "num" /\ b.kind # "num" THEN NaN
    ELSE IF a.kind # "num"
         THEN (IF Sign(a) * (IF Sign(b) < 0 THEN -1 ELSE 1) > 0
               THEN PosInf ELSE NegInf)
    ELSE IF b.kind # "num" THEN Zero
    ELSE IF b.n = 0
         THEN (IF a.n = 0 THEN NaN ELSE IF a.n > 0 THEN PosInf ELSE NegInf)
    ELSE Num(a.n * b.d, a.d * b.n)

\* the operator - of lines 126, 160 and 219
jsSub(a, b) ==
    IF a.kind = "nan" \/ b.kind = "nan" THEN NaN
    ELSE IF a.kind # "num" /\ b.kind # "num"
         THEN (IF a.kind = b.kind THEN NaN ELSE a)
    ELSE IF a.kind # "num" THEN a
    ELSE IF b.kind = "pinf" THEN NegInf
    ELSE IF b.kind = "ninf" THEN PosInf
    ELSE Num(a.n * b.d - b.n * a.d, a.d * b.d)

\* variant of jsMul that passes the new signal on without the running
\* product
jsMulDropsProduct(a, b) == b

\* the operator * of lines 48 and 105
jsMul(a, b) ==
    IF a.kind = "nan" \/ b.kind = "nan" THEN NaN
    ELSE IF a.kind = "num" /\ b.kind = "num" THEN Num(a.n * b.n, a.d * b.d)
    ELSE IF Sign(a) * Sign(b) = 0 THEN NaN
    ELSE IF Sign(a) * Sign(b) > 0 THEN PosInf
    ELSE NegInf

\* the comparison consolidatedQuality > 0 of lines 41, 60 and 97
GreaterThanZero(x) == x.kind \in {"num", "pinf"} /\ Sign(x) > 0

\* the truthiness test !total of line 213
Falsy(x) == x.kind = "nan" \/ (x.kind = "num" /\ x.n = 0)

\* ------------------------------------------------------------------ inputs
\* repository URLs an entry can carry, one or more for every branch of
\* extractRepoInfo
UrlGitAt == GitAtPrefix \o <<"o","/","r",".","g","i","t">>
UrlGitAtPlain == GitAtPrefix \o <<"o","/","r">>
UrlGitAtShort == GitAtPrefix \o <<"o">>
UrlGitProto == GitProtoPrefix \o <<"o","/","r",".","g","i","t">>
UrlGitProtoLong == GitProtoPrefix \o <<"o","/","r","/","x">>
UrlHttps ==
    <<"h","t","t","p","s",":","/","/","h",".","c","/","o","/","r">>
UrlHttpsGit ==
    <<"h","t","t","p","s",":","/","/","h",".","c","/","o","/",
      "r",".","g","i","t">>
UrlHttpsLong ==
    <<"h","t","t","p","s",":","/","/","h",".","c","/","o","/","r","/","x">>
UrlHttpsShort == <<"h","t","t","p","s",":","/","/","h",".","c","/","o">>
UrlHttpsPages ==
    <<"h","t","t","p","s",":","/","/","h",".","c","/","o","/",
      "p",".","g","i","t","h","u","b",".","i","o">>

Urls ==
    {UrlGitAt, UrlGitAtPlain, UrlGitAtShort, UrlGitProto, UrlGitProtoLong,
     UrlHttps, UrlHttpsGit, UrlHttpsLong, UrlHttpsShort, UrlHttpsPages}

Repos ==
    {NoRepo}
    \cup {[present |-> TRUE, type |-> "", url |-> UrlGitAt],
          [present |-> TRUE, type |-> "git", url |-> <<>>],
          [present |-> TRUE, type |-> "svn", url |-> UrlGitAt]}
    \cup {[present |-> TRUE, type |-> "git", url |-> u] : u \in Urls}

\* An entry: null, undefined, or an object.  named says whether the object
\* has a name key; name is "" when the key is missing or holds "".
NullEntry ==
    [kind |-> "null", named |-> FALSE, name |-> "", repository |-> NoRepo]
UndefinedEntry ==
    [kind |-> "undefined", named |-> FALSE, name |-> "",
     repository |-> NoRepo]

Entries ==
    {NullEntry, UndefinedEntry}
    \cup {[kind |-> "object", named |-> FALSE, name |-> "",
           repository |-> r] : r \in Repos}
    \cup {[kind |-> "object", named |-> TRUE, name |-> n,
           repository |-> r] : n \in {"", "pkg"}, r \in Repos}

\* all sequences over S of length at most n
RECURSIVE SeqsUpTo(_, _)
SeqsUpTo(S, n) ==
    IF n = 0 THEN {<<>>}
    ELSE SeqsUpTo(S, n - 1)
         \cup {Append(s, x) : s \in {t \in SeqsUpTo(S, n - 1) : Len(t) = n - 1},
                              x \in S}

\* A response body, named by what JSON.parse makes of it: "unparseable"
\* (JSON.parse throws), "null" (the JSON value null), "array" (list holds
\* the elements), "object" (has says whether the key the code reads is
\* there, list holds what is under it); "none" is a body that never came.
NoBody == [kind |-> "none", has |-> FALSE, list |-> <<>>]
Unparseable == [kind |-> "unparseable", has |-> FALSE, list |-> <<>>]
JsonNull == [kind |-> "null", has |-> FALSE, list |-> <<>>]
PlainObject == [kind |-> "object", has |-> FALSE, list |-> <<>>]

IssueStates == {"open", "closed", "reopened"}

\* bodies of the issue-list endpoint: a JSON array of {state}, or an object
\* such as {"message": "Not Found"}
IssueBodies ==
    {Unparseable, PlainObject}
    \cup {[kind |-> "array", has |-> FALSE, list |-> l] :
            l \in SeqsUpTo(IssueStates, MaxIssues)}

\* bodies of the download endpoint: {downloads: [{downloads: n}, ...]},
\* an object without that key, or not an object at all
DownloadBodies ==
    {Unparseable, JsonNull, PlainObject}
    \cup {[kind |-> "object", has |-> TRUE, list |-> l] :
            l \in SeqsUpTo(0..MaxCount, MaxSamples)}

\* bodies of the registry endpoint: {versions: {<version>: ...}} with the
\* version keys 1..k, an object without versions, or not an object
RegistryBodies ==
    {Unparseable, JsonNull, PlainObject}
    \cup {[kind |-> "object", has |-> TRUE, list |-> [i \in 1..k |-> i]] :
            k \in 0..MaxVersions}

\* What the transport hands to a request callback: (error, response, body).
\* status 0 stands for an undefined response; a transport error carries no
\* body.  The code reads response.statusCode in its error branches only, so
\* an answer without error varies in status only where the endpoint's 404
\* is spoken of, the registry's.
NoOutcome == [error |-> FALSE, status |-> 0, body |-> NoBody]

Outcomes(bodies, statuses) ==
    {[error |-> TRUE, status |-> s, body |-> NoBody] : s \in {0, 404, 500}}
    \cup {[error |-> FALSE, status |-> s, body |-> b] :
            s \in statuses, b \in bodies}

IssueOutcomes == Outcomes(IssueBodies, {200})
DownloadOutcomes == Outcomes(DownloadBodies, {200})
RegistryOutcomes == Outcomes(RegistryBodies, {200, 404})

\* The cases two concurrent calls are followed through: two entries with
\* valid repositories; issue lists of open and closed issues, or a
\* transport error; one-sample download series; version maps with a key
\* or more.
PairEntries ==
    {[kind |-> "object", named |-> TRUE, name |-> "pkg",
      repository |-> [present |-> TRUE, type |-> "git", url |-> UrlGitAt]],
     [kind |-> "object", named |-> TRUE, name |-> "lib",
      repository |-> [present |-> TRUE, type |-> "git", url |-> UrlHttps]]}

PairIssueOutcomes ==
    {[error |-> TRUE, status |-> 0, body |-> NoBody]}
    \cup {[error |-> FALSE, status |-> 200,
           body |-> [kind |-> "array", has |-> FALSE, list |-> l]] :
            l \in SeqsUpTo({"open", "closed"}, MaxIssues)}

PairDownloadOutcomes ==
    {[error |-> FALSE, status |-> 200,
      body |-> [kind |-> "object", has |-> TRUE, list |-> <<k>>]] :
        k \in 1..MaxCount}

PairRegistryOutcomes ==
    {[error |-> FALSE, status |-> 200,
      body |-> [kind |-> "object", has |-> TRUE,
                list |-> [i \in 1..k |-> i]]] : k \in 1..MaxVersions}

\* ------------------------------------------------------------------- state
VARIABLES
    entry,             \* the entry estimate was called with
    pc,                \* where the call is: "idle", "stage1", "issuesWait",
                       \* "stage2", "downloadsWait", "stage3",
                       \* "registryWait", "stage4", "done", "thrown"
    q,                 \* consolidatedQuality, the running product
    registryResponse,  \* the parsed registry body handed to the last stage
    cbCount,           \* times the caller's callback was invoked
    cbError,           \* the error it received, <<>> for none
    cbScore,           \* the score it received, NoNumber for none
    calls,             \* requests issued per endpoint, estimateVersions runs
    handed,            \* the running products handed to stages 2, 3 and 4
    signals,           \* the three signal scores as computed
    issuesUrl,         \* owner and name the issue-list URL was built from
    responses,         \* what the transport answered per endpoint
    active,            \* 0 when a single call is followed; else which of
                       \* two concurrent calls, 1 or 2, the variables above
                       \* belong to: the call whose callback runs next
    parked             \* the variables of the other of the two calls

vars ==
    <<entry, pc, q, registryResponse, cbCount, cbError, cbScore, calls,
      handed, signals, issuesUrl, responses, active, parked>>

\* ----------------------------------------------------------------- helpers
RECURSIVE Join(_)
Join(chars) == IF chars = <<>> THEN "" ELSE Head(chars) \o Join(Tail(chars))

\* JSON.stringify(entry.repository) as a member of the entry object
StringifyRepo(repo) ==
    IF ~repo.present THEN ""
    ELSE "\"repository\":{"
         \o (IF repo.type = "" THEN ""
             ELSE "\"type\":\"" \o repo.type \o "\"")
         \o (IF repo.type # "" /\ repo.url # <<>> THEN "," ELSE "")
         \o (IF repo.url = <<>> THEN ""
             ELSE "\"url\":\"" \o Join(repo.url) \o "\"")
         \o "}"

\* JSON.stringify(entry) followed by string concatenation (lines 28-29):
\* undefined stringifies to undefined, which concatenates as "undefined"
JSONstringify(e) ==
    IF e.kind = "null" THEN "null"
    ELSE IF e.kind = "undefined" THEN "undefined"
    ELSE "{"
         \o (IF e.named THEN "\"name\":\"" \o e.name \o "\"" ELSE "")
         \o (IF e.named /\ e.repository.present THEN "," ELSE "")
         \o StringifyRepo(e.repository)
         \o "}"

\* variant of NameMissing without the name test: only !entry
NameMissingOnlyNull(e) == e.kind # "object"

\* !entry || !entry.name (line 26)
NameMissing(e) == e.kind # "object" \/ e.name = ""

\* the forEach of lines 197-212
RECURSIVE CountIssues(_, _)
CountIssues(issues, acc) ==
    IF issues = <<>> THEN acc
    ELSE CountIssues(Tail(issues),
            [total  |-> acc.total + 1,
             open   |-> acc.open + (IF Head(issues) = "open" THEN 1 ELSE 0),
             closed |-> acc.closed
                        + (IF Head(issues) = "closed" THEN 1 ELSE 0)])

\* variant of IssuesQuality whose total counts open and closed issues only
IssuesQualityClassified(issues) ==
    LET c == CountIssues(issues, [total |-> 0, open |-> 0, closed |-> 0])
    IN  IF Falsy(Num(c.open + c.closed, 1)) THEN Zero
        ELSE jsSub(One, jsDiv(Num(c.open, 1), Num(c.open + c.closed, 1)))

\* variant of IssuesQuality that returns the share of open issues
IssuesQualityOpenShare(issues) ==
    LET c == CountIssues(issues, [total |-> 0, open |-> 0, closed |-> 0])
    IN  IF Falsy(Num(c.total, 1)) THEN Zero
        ELSE jsDiv(Num(c.open, 1), Num(c.total, 1))

\* lines 194-219: the score of a parsed issue list
IssuesQuality(issues) ==
    LET c == CountIssues(issues, [total |-> 0, open |-> 0, closed |-> 0])
    IN  IF Falsy(Num(c.total, 1)) THEN Zero
        ELSE jsSub(One, jsDiv(Num(c.open, 1), Num(c.total, 1)))

\* the forEach of lines 156-158
RECURSIVE SumDownloads(_, _)
SumDownloads(items, downloads) ==
    IF items = <<>> THEN downloads
    ELSE SumDownloads(Tail(items), downloads + Head(items))

\* variant of DownloadsQuality that forgets the 1 - of line 160
DownloadsQualityInverse(result) ==
    IF result.has
    THEN jsDiv(One, Num(SumDownloads(result.list, 0), 1))
    ELSE Zero

\* lines 153-162: the score of a parsed download response
DownloadsQuality(result) ==
    IF result.has
    THEN jsSub(One, jsDiv(One, Num(SumDownloads(result.list, 0), 1)))
    ELSE Zero

\* prototypes' countProperties
countProperties(keys) == Len(keys)

\* registryResponse.versions (line 99)
Versions(response) == [truthy |-> response.has, keys |-> response.list]

\* variant of estimateVersions without the !versions test of line 120: an
\* absent map counts as no properties
estimateVersionsUnguarded(versions) ==
    jsSub(One, jsDiv(One, Num(countProperties(versions.keys), 1)))

\* variant of estimateVersions that scores an empty map 0
estimateVersionsEmptyIsZero(versions) ==
    IF ~versions.truthy \/ countProperties(versions.keys) = 0 THEN Zero
    ELSE jsSub(One, jsDiv(One, Num(countProperties(versions.keys), 1)))

\* estimateVersions (lines 118-127), the score it passes to its callback
estimateVersions(versions) ==
    IF ~versions.truthy THEN Zero
    ELSE jsSub(One, jsDiv(One, Num(countProperties(versions.keys), 1)))

NoCalls == [issues |-> 0, downloads |-> 0, registry |-> 0, versions |-> 0]
NoSignals ==
    [issues |-> NoNumber, downloads |-> NoNumber, versions |-> NoNumber]
NoResponses ==
    [issues |-> NoOutcome, downloads |-> NoOutcome, registry |-> NoOutcome]

\* the caller's callback is invoked with (error) or (null, score)
Deliver(error, score) ==
    /\ cbCount' = cbCount + 1
    /\ cbError' = error
    /\ cbScore' = score
    /\ pc' = "done"

\* an exception escapes a callback: nothing of the call runs any more
Throw ==
    /\ pc' = "thrown"
    /\ UNCHANGED <<cbCount, cbError, cbScore>>

\* a stage calls back (null, quality): the waterfall runs the next stage
Continue(next, quality) ==
    /\ pc' = next
    /\ q' = quality
    /\ UNCHANGED <<cbCount, cbError, cbScore>>

\* ------------------------------------------------------ request callbacks
\* What a request callback does with (error, response, body): it calls back
\* (null, quality) ["next"], calls back (error) ["error"], or an exception
\* escapes it ["throw"].  response is the parsed body passed on, if any.
CallbackNext(quality, response) ==
    [kind |-> "next", quality |-> quality, error |-> <<>>,
     response |-> response]
CallbackError(error) ==
    [kind |-> "error", quality |-> NoNumber, error |-> error,
     response |-> NoBody]
CallbackThrow ==
    [kind |-> "throw", quality |-> NoNumber, error |-> <<>>,
     response |-> NoBody]

\* JSON.parse(body) throws (lines 78, 147, 188)
JSONparseThrows(body) == body.kind = "unparseable"

\* variant of IssuesCallback that hands the transport error on
IssuesCallbackPropagating(o) ==
    IF o.error THEN CallbackError(<<"Could not access issues">>)
    ELSE IF JSONparseThrows(o.body)
    THEN CallbackError(<<"Invalid issues in ", "<body>", ": ",
                         "SyntaxError">>)
    ELSE IF o.body.kind # "array"
    THEN CallbackThrow
    ELSE CallbackNext(IssuesQuality(o.body.list), NoBody)

\* variant of IssuesCallback that scores an unreachable issue list 1
IssuesCallbackOptimistic(o) ==
    IF o.error THEN CallbackNext(One, NoBody)
    ELSE IF JSONparseThrows(o.body)
    THEN CallbackError(<<"Invalid issues in ", "<body>", ": ",
                         "SyntaxError">>)
    ELSE IF o.body.kind # "array"
    THEN CallbackThrow
    ELSE CallbackNext(IssuesQuality(o.body.list), NoBody)

\* the request callback of estimateRepo (lines 178-220)
IssuesCallback(o) ==
    IF o.error THEN CallbackNext(Zero, NoBody)
    ELSE IF JSONparseThrows(o.body)
    THEN CallbackError(<<"Invalid issues in ", "<body>", ": ",
                         "SyntaxError">>)
    ELSE IF o.body.kind # "array"
    THEN CallbackThrow  \* issues.forEach is not a function
    ELSE CallbackNext(IssuesQuality(o.body.list), NoBody)

\* variant of DownloadsCallback that treats an unparseable body as the
\* registry stage does: no data, quality 0
DownloadsCallbackSoftParse(o, name) ==
    IF o.error
    THEN (IF o.status = 0 THEN CallbackThrow ELSE CallbackNext(Zero, NoBody))
    ELSE IF JSONparseThrows(o.body) THEN CallbackNext(Zero, NoBody)
    ELSE IF o.body.kind # "object"
    THEN CallbackThrow
    ELSE CallbackNext(DownloadsQuality(o.body), NoBody)

\* the request callback of estimateDownloadsLastYear (lines 134-163)
DownloadsCallback(o, name) ==
    IF o.error
    THEN (IF o.status = 0
          THEN CallbackThrow  \* response.statusCode, response undefined
          ELSE CallbackNext(Zero, NoBody))
    ELSE IF JSONparseThrows(o.body)
    THEN CallbackError(<<"Could not parse ", name, ": ", "SyntaxError">>)
    ELSE IF o.body.kind # "object"
    THEN CallbackThrow  \* 'downloads' in result, result not an object
    ELSE CallbackNext(DownloadsQuality(o.body), NoBody)

\* the request callback of the third stage (lines 64-86)
RegistryCallback(o, consolidatedQuality) ==
    IF o.error
    THEN (IF o.status = 0
          THEN CallbackThrow  \* response.statusCode, response undefined
          ELSE CallbackNext(Zero, JsonNull))
    ELSE IF JSONparseThrows(o.body) THEN CallbackNext(Zero, JsonNull)
    ELSE CallbackNext(consolidatedQuality, o.body)

\* ----------------------------------------------------------------- actions
\* the variables of a call that has not been made
IdleCall ==
    [entry |-> UndefinedEntry, pc |-> "idle", q |-> NoNumber,
     registryResponse |-> NoBody, cbCount |-> 0, cbError |-> <<>>,
     cbScore |-> NoNumber, calls |-> NoCalls, handed |-> <<>>,
     signals |-> NoSignals,
     issuesUrl |-> [owner |-> <<>>, name |-> <<>>],
     responses |-> NoResponses]

\* the variables of the call whose callback runs next: the parameters and
\* locals of one invocation of estimate (lines 24-113) and what is
\* recorded about it; the module holds no variable that a call writes
\* (lines 9-18)
CallState ==
    [entry |-> entry, pc |-> pc, q |-> q,
     registryResponse |-> registryResponse, cbCount |-> cbCount,
     cbError |-> cbError, cbScore |-> cbScore, calls |-> calls,
     handed |-> handed, signals |-> signals, issuesUrl |-> issuesUrl,
     responses |-> responses]

\* no call has been made
Fresh ==
    /\ entry = UndefinedEntry
    /\ pc = "idle"
    /\ q = NoNumber
    /\ registryResponse = NoBody
    /\ cbCount = 0
    /\ cbError = <<>>
    /\ cbScore = NoNumber
    /\ calls = NoCalls
    /\ handed = <<>>
    /\ signals = NoSignals
    /\ issuesUrl = [owner |-> <<>>, name |-> <<>>]
    /\ responses = NoResponses
    /\ parked = IdleCall

\* one call is followed
Init ==
    /\ Fresh
    /\ active = 0

\* two calls for different entries are followed
PairInit ==
    /\ Fresh
    /\ active = 1

\* what the caller and the collaborators supply: everything within the
\* bounds when one call is followed, the cases below when two are
EntryChoices ==
    IF active = 0 THEN Entries
    ELSE {e \in PairEntries : e # parked.entry}
IssueAnswers == IF active = 0 THEN IssueOutcomes ELSE PairIssueOutcomes
DownloadAnswers ==
    IF active = 0 THEN DownloadOutcomes ELSE PairDownloadOutcomes
RegistryAnswers ==
    IF active = 0 THEN RegistryOutcomes ELSE PairRegistryOutcomes

\* exports.estimate (lines 24-31, 115): validate the entry, launch the
\* waterfall
Estimate ==
    \E e \in EntryChoices :
        /\ pc = "idle"
        /\ entry' = e
        /\ IF NameMissing(e)
           THEN Deliver(<<JSONstringify(e), " is null or has no name">>,
                        NoNumber)
           ELSE /\ pc' = "stage1"
                /\ UNCHANGED <<cbCount, cbError, cbScore>>
        /\ UNCHANGED <<active, parked, q, registryResponse, calls, handed,
                       signals, issuesUrl, responses>>

\* first stage (lines 33-36) and estimateRepo up to its request
\* (lines 167-178)
Stage1 ==
    /\ pc = "stage1"
    /\ LET info == extractRepoInfo(entry.repository)
       IN  IF ~info.valid
           THEN /\ Continue("stage2", Zero)
                /\ signals' = [signals EXCEPT !.issues = Zero]
                /\ UNCHANGED <<calls, issuesUrl>>
           ELSE /\ calls' = [calls EXCEPT !.issues = @ + 1]
                /\ issuesUrl' = [owner |-> info.owner, name |-> info.name]
                /\ pc' = "issuesWait"
                /\ UNCHANGED <<q, signals, cbCount, cbError, cbScore>>
    /\ UNCHANGED <<active, parked, entry, registryResponse, handed, responses>>

\* the issue-list response arrives: estimateRepo's request callback runs
IssuesResponse ==
    \E o \in IssueAnswers :
        /\ pc = "issuesWait"
        /\ responses' = [responses EXCEPT !.issues = o]
        /\ LET r == IssuesCallback(o)
           IN  IF r.kind = "next"
               THEN /\ Continue("stage2", r.quality)
                    /\ signals' = [signals EXCEPT !.issues = r.quality]
               ELSE IF r.kind = "error"
               THEN /\ Deliver(r.error, NoNumber)
                    /\ UNCHANGED <<q, signals>>
               ELSE /\ Throw
                    /\ UNCHANGED <<q, signals>>
        /\ UNCHANGED <<active, parked, entry, registryResponse, calls,
                       handed, issuesUrl>>

\* variant of Stage2 that calls back without waiting for the download
\* response
Stage2NotWaiting ==
    /\ pc = "stage2"
    /\ handed' = Append(handed, q)
    /\ IF GreaterThanZero(q)
       THEN calls' = [calls EXCEPT !.downloads = @ + 1]
       ELSE UNCHANGED calls
    /\ pc' = "stage3"
    /\ UNCHANGED <<active, parked, entry, q, registryResponse, cbCount,
                   cbError, cbScore, signals, issuesUrl, responses>>

\* second stage (lines 38-55) and estimateDownloadsLastYear up to its
\* request (lines 129-134)
Stage2 ==
    /\ pc = "stage2"
    /\ handed' = Append(handed, q)
    /\ IF GreaterThanZero(q)
       THEN /\ calls' = [calls EXCEPT !.downloads = @ + 1]
            /\ pc' = "downloadsWait"
       ELSE /\ pc' = "stage3"
            /\ UNCHANGED calls
    /\ UNCHANGED <<active, parked, entry, q, registryResponse, cbCount,
                   cbError, cbScore, signals, issuesUrl, responses>>

\* the download response arrives: estimateDownloadsLastYear's request
\* callback runs, then the callback of the second stage (lines 42-49)
DownloadsResponse ==
    \E o \in DownloadAnswers :
        /\ pc = "downloadsWait"
        /\ responses' = [responses EXCEPT !.downloads = o]
        /\ LET r == DownloadsCallback(o, entry.name)
           IN  IF r.kind = "next"
               THEN /\ Continue("stage3", jsMul(q, r.quality))
                    /\ signals' = [signals EXCEPT !.downloads = r.quality]
               ELSE IF r.kind = "error"
               THEN /\ Deliver(r.error, NoNumber)
                    /\ UNCHANGED <<q, signals>>
               ELSE /\ Throw
                    /\ UNCHANGED <<q, signals>>
        /\ UNCHANGED <<active, parked, entry, registryResponse, calls,
                       handed, issuesUrl>>

\* third stage up to its request (lines 57-64, 88-91)
Stage3 ==
    /\ pc = "stage3"
    /\ handed' = Append(handed, q)
    /\ IF GreaterThanZero(q)
       THEN /\ calls' = [calls EXCEPT !.registry = @ + 1]
            /\ pc' = "registryWait"
            /\ UNCHANGED registryResponse
       ELSE /\ pc' = "stage4"
            /\ registryResponse' = JsonNull
            /\ UNCHANGED calls
    /\ UNCHANGED <<active, parked, entry, q, cbCount, cbError, cbScore,
                   signals, issuesUrl, responses>>

\* the registry response arrives: the third stage's request callback runs
RegistryResponse ==
    \E o \in RegistryAnswers :
        /\ pc = "registryWait"
        /\ responses' = [responses EXCEPT !.registry = o]
        /\ LET r == RegistryCallback(o, q)
           IN  IF r.kind = "next"
               THEN /\ Continue("stage4", r.quality)
                    /\ registryResponse' = r.response
               ELSE /\ Throw
                    /\ UNCHANGED <<q, registryResponse>>
        /\ UNCHANGED <<active, parked, entry, calls, handed, signals,
                       issuesUrl>>

\* fourth stage, estimateVersions and the caller's callback (lines 94-112,
\* 118-127)
Stage4 ==
    /\ pc = "stage4"
    /\ handed' = Append(handed, q)
    /\ IF GreaterThanZero(q)
       THEN IF registryResponse.kind # "object"
            THEN \* registryResponse.versions of null
                 /\ Throw
                 /\ UNCHANGED <<calls, signals>>
            ELSE /\ calls' = [calls EXCEPT !.versions = @ + 1]
                 /\ signals' =
                      [signals EXCEPT !.versions =
                          estimateVersions(Versions(registryResponse))]
                 /\ Deliver(<<>>,
                      jsMul(q, estimateVersions(Versions(registryResponse))))
       ELSE /\ Deliver(<<>>, q)
            /\ UNCHANGED <<calls, signals>>
    /\ UNCHANGED <<active, parked, entry, q, registryResponse, issuesUrl,
                   responses>>

Next ==
    \/ Estimate
    \/ Stage1
    \/ IssuesResponse
    \/ Stage2
    \/ DownloadsResponse
    \/ Stage3
    \/ RegistryResponse
    \/ Stage4

Spec == Init /\ [][Next]_vars

\* variant of Switch for a running product kept in a variable of the
\* module instead of the stage's parameter: it is not the call's own
SwitchSharingQuality ==
    /\ active \in {1, 2}
    /\ active' = 3 - active
    /\ parked' = CallState
    /\ entry' = parked.entry
    /\ pc' = parked.pc
    /\ registryResponse' = parked.registryResponse
    /\ cbCount' = parked.cbCount
    /\ cbError' = parked.cbError
    /\ cbScore' = parked.cbScore
    /\ calls' = parked.calls
    /\ handed' = parked.handed
    /\ signals' = parked.signals
    /\ issuesUrl' = parked.issuesUrl
    /\ responses' = parked.responses
    /\ UNCHANGED q

\* The event loop runs a callback of the other call next.  Every variable
\* of a call is a parameter or local of its own invocation (lines 24-113),
\* so the other call's values take their place.
Switch ==
    /\ active \in {1, 2}
    /\ active' = 3 - active
    /\ parked' = CallState
    /\ entry' = parked.entry
    /\ pc' = parked.pc
    /\ q' = parked.q
    /\ registryResponse' = parked.registryResponse
    /\ cbCount' = parked.cbCount
    /\ cbError' = parked.cbError
    /\ cbScore' = parked.cbScore
    /\ calls' = parked.calls
    /\ handed' = parked.handed
    /\ signals' = parked.signals
    /\ issuesUrl' = parked.issuesUrl
    /\ responses' = parked.responses

PairNext ==
    \/ Next
    \/ Switch

\* two estimate calls for different entries, their callbacks interleaved
\* in any order
PairSpec == PairInit /\ [][PairNext]_vars

\* ---------------------------------------------------------------- claims
\* the call has been made with an entry that passed validation
Started == pc # "idle" /\ ~(entry.kind # "object" \/ entry.name = "")

\* a number that is a rational strictly above zero
IsPositive(x) == x.kind = "num" /\ x.n > 0

\* the caller's callback received (null, 0)
DeliveredZero == cbCount = 1 /\ cbError = <<>> /\ cbScore = Zero

\* the caller's callback received (error) and no score
DeliveredError == cbCount = 1 /\ cbError # <<>> /\ cbScore = NoNumber

\* C1: for an entry that is null, absent or without a non-empty name,
\* estimate has called back with an error that contains the serialized
\* entry and no score, and no issue, download or registry request is made
\* at any time.
C1_NoNameFailsWithoutRequests ==
    (pc # "idle" /\ (entry.kind \in {"null", "undefined"} \/ entry.name = ""))
        => /\ pc = "done"
           /\ DeliveredError
           /\ \E i \in 1..Len(cbError) : cbError[i] = JSONstringify(entry)
           /\ calls = NoCalls

C1_Witness ==
    /\ pc = "done"
    /\ entry.kind = "object" /\ entry.named /\ entry.name = ""
    /\ entry.repository.type = "git" /\ entry.repository.url = UrlGitAt
    /\ DeliveredError

\* number of '/' in a string
SlashCount(s) == Cardinality({i \in 1..Len(s) : s[i] = Slash})

\* the repository descriptor cannot be located: absent, type or url
\* missing, type not "git", or a URL with the wrong number of segments
Unlocatable(repo) ==
    \/ ~repo.present
    \/ repo.type = ""
    \/ repo.url = <<>>
    \/ repo.type # "git"
    \/ IF startsWith(repo.url, GitAtPrefix)
       THEN SlashCount(SubSeq(repo.url, Len(GitAtPrefix) + 1,
                              Len(repo.url))) # 1
       ELSE IF startsWith(repo.url, GitProtoPrefix)
       THEN SlashCount(SubSeq(repo.url, Len(GitProtoPrefix) + 1,
                              Len(repo.url))) # 1
       ELSE SlashCount(repo.url) # 4

\* C2: for a named entry whose repository cannot be located, no issue,
\* download or registry request is ever made, no exception escapes, and the
\* call ends with no error and a score of exactly 0.
C2_UnlocatableRepoScoresZero ==
    (Started /\ Unlocatable(entry.repository))
        => /\ calls.issues = 0 /\ calls.downloads = 0 /\ calls.registry = 0
           /\ pc \in {"stage1", "stage2", "stage3", "stage4", "done"}
           /\ pc = "done" => DeliveredZero
           /\ pc # "done" => cbCount = 0

C2_Witness ==
    /\ pc = "done"
    /\ entry.name = "pkg"
    /\ entry.repository.type = "git"
    /\ entry.repository.url = UrlHttpsLong
    /\ DeliveredZero
    /\ Len(handed) = 3

\* C3: the download fetch, the registry fetch and the version scoring run
\* only when the running product handed to their stage is strictly
\* positive; once a product handed on is not positive, no later stage
\* issues a request or computes a score, and the value returned is zero.
C3_GatedStagesReturnZero ==
    /\ calls.downloads > 0 => (Len(handed) >= 1 /\ IsPositive(handed[1]))
    /\ calls.registry > 0 => (Len(handed) >= 2 /\ IsPositive(handed[2]))
    /\ calls.versions > 0 => (Len(handed) >= 3 /\ IsPositive(handed[3]))
    /\ \A i \in 1..Len(handed) :
          ~IsPositive(handed[i])
             => /\ i <= 1 => calls.downloads = 0
                /\ i <= 2 => calls.registry = 0
                /\ calls.versions = 0
                /\ pc = "done" => DeliveredZero

\* C4: whenever the caller's callback is invoked it receives either an
\* error and no score, or no error and a score q with 0 <= q <= 1.
C4_ScoreInUnitInterval ==
    cbCount >= 1
        => \/ cbError # <<>> /\ cbScore = NoNumber
           \/ /\ cbError = <<>>
              /\ cbScore.kind = "num"
              /\ 0 <= cbScore.n /\ cbScore.n <= cbScore.d

\* C5: when the issue-list body or the download body cannot be parsed, the
\* call has ended with an error and no score, and no stage after the
\* failing one has issued a request or contributed a score.
C5_UnparseableBodyIsHardError ==
    /\ responses.issues.body.kind = "unparseable"
          => /\ pc = "done" /\ DeliveredError
             /\ calls.downloads = 0 /\ calls.registry = 0
             /\ calls.versions = 0
             /\ signals = NoSignals
    /\ responses.downloads.body.kind = "unparseable"
          => /\ pc = "done" /\ DeliveredError
             /\ calls.registry = 0 /\ calls.versions = 0
             /\ signals.downloads = NoNumber
             /\ signals.versions = NoNumber

C5_Witness ==
    /\ responses.downloads.body.kind = "unparseable"
    /\ IsPositive(signals.issues)
    /\ cbError = <<"Could not parse ", "pkg", ": ", "SyntaxError">>

\* C6: when the registry fetch ends in a transport error, a 404 or an
\* unparseable body, no exception escapes, version scoring is not
\* performed, and the call ends with no error and a score of exactly 0.
C6_RegistryFailureIsSoft ==
    (\/ responses.registry.error
     \/ responses.registry.status = 404
     \/ responses.registry.body.kind = "unparseable")
        => /\ pc \in {"stage4", "done"}
           /\ calls.versions = 0
           /\ pc = "done" => DeliveredZero

\* C7: when the download fetch ends in a transport error, with or without
\* a response object, the download score is 0, no registry request is
\* made, and the call ends with no error and a score of 0.
C7_DownloadTransportErrorIsSoft ==
    responses.downloads.error
        => /\ pc \in {"stage3", "stage4", "done"}
           /\ signals.downloads = Zero
           /\ calls.registry = 0
           /\ pc = "done" => DeliveredZero

\* C8: when the issue-list fetch ends in a transport error, the error is
\* not propagated: the issue score is 0, no download or registry request is
\* made, and the call ends with no error and a score of 0.
C8_IssueTransportErrorIsSoft ==
    responses.issues.error
        => /\ pc \in {"stage2", "stage3", "stage4", "done"}
           /\ signals.issues = Zero
           /\ calls.downloads = 0 /\ calls.registry = 0
           /\ pc = "done" => DeliveredZero
           /\ pc # "done" => cbCount = 0

C8_Witness ==
    /\ responses.issues.error
    /\ responses.issues.status = 0
    /\ pc = "done"
    /\ DeliveredZero

\* C9: a started call whose requests are all answered never ends without
\* the caller's callback: the callback is invoked at most once, and a call
\* that has no stage left to run and no request outstanding has invoked it
\* exactly once.
C9_EndsWithExactlyOneCallback ==
    /\ cbCount <= 1
    /\ pc \notin {"idle", "stage1", "issuesWait", "stage2", "downloadsWait",
                  "stage3", "registryWait", "stage4"} => cbCount = 1

\* C10: for every parsed issue list the issue score is 0 when the list is
\* empty and 1 - open/total otherwise, total counting every issue and open
\* those whose state is "open"; an unexpected state does not make the
\* scoring fail.
C10_IssueScore ==
    responses.issues.body.kind = "array"
        => LET issues == responses.issues.body.list
               total == Len(issues)
               open == Cardinality({i \in 1..total : issues[i] = "open"})
           IN  /\ signals.issues.kind = "num"
               /\ total = 0 => signals.issues = Zero
               /\ total > 0 =>
                    signals.issues.n * total
                        = (total - open) * signals.issues.d
               /\ open = 0 /\ total > 0 => signals.issues = One
               /\ open = total => signals.issues = Zero

C10_Witness ==
    /\ responses.issues.body.list = <<"open", "reopened">>
    /\ signals.issues = Num(1, 2)
    /\ pc = "stage2"

\* sum of a sequence of numbers, taken from its end
RECURSIVE Total(_)
Total(counts) ==
    IF counts = <<>> THEN 0
    ELSE counts[Len(counts)] + Total(SubSeq(counts, 1, Len(counts) - 1))

\* C11: for every parsed download response the download score is 0 when
\* the response has no downloads series, and 1 - 1/total when it has a
\* series whose counts sum to total > 0; a total of 1 scores exactly 0.
C11_DownloadScore ==
    (~responses.downloads.error /\ responses.downloads.body.kind = "object")
        => LET body == responses.downloads.body
               total == Total(body.list)
           IN  /\ ~body.has => signals.downloads = Zero
               /\ (body.has /\ total > 0) =>
                    /\ signals.downloads.kind = "num"
                    /\ signals.downloads.n * total
                         = (total - 1) * signals.downloads.d
               /\ (body.has /\ total = 1) => signals.downloads = Zero

C11_Witness ==
    /\ responses.downloads.body.has
    /\ responses.downloads.body.list = <<1, 2>>
    /\ signals.downloads = Num(2, 3)
    /\ pc = "stage3"

\* C12: the version score is 0 when the version map is absent or null and
\* 1 - 1/count when the map has count >= 1 keys, a single version scoring
\* exactly 0; a registry response that parses to an object without a
\* versions field ends the call with no error and a score of 0.
C12_VersionScore ==
    /\ calls.versions = 1
          => LET count == Cardinality(DOMAIN registryResponse.list)
             IN  /\ ~registryResponse.has => signals.versions = Zero
                 /\ (registryResponse.has /\ count >= 1) =>
                      /\ signals.versions.kind = "num"
                      /\ signals.versions.n * count
                           = (count - 1) * signals.versions.d
                 /\ (registryResponse.has /\ count = 1) =>
                      signals.versions = Zero
    /\ (~responses.registry.error /\ responses.registry.body = PlainObject)
          => /\ pc \in {"stage4", "done"}
             /\ pc = "done" => (calls.versions = 1 /\ DeliveredZero)

C12_Witness ==
    /\ responses.registry.body = PlainObject
    /\ ~responses.registry.error
    /\ pc = "done"
    /\ signals.versions = Zero
    /\ DeliveredZero

\* position of the n-th '/' of a string, n >= 1
NthSlash(s, n) ==
    LET P == {i \in 1..Len(s) : s[i] = Slash}
    IN  CHOOSE i \in P : Cardinality({j \in P : j < i}) = n - 1

\* the '/'-separated segment of s at index k, counted from 0
Segment(s, k) ==
    SubSeq(s,
           IF k = 0 THEN 1 ELSE NthSlash(s, k) + 1,
           IF k = SlashCount(s) THEN Len(s) ELSE NthSlash(s, k + 1) - 1)

\* what is left of a URL once a leading 'git@github.com:' or
\* 'git://github.com:' is stripped; the whole URL otherwise
AfterPrefix(url) ==
    IF startsWith(url, GitAtPrefix)
    THEN SubSeq(url, Len(GitAtPrefix) + 1, Len(url))
    ELSE IF startsWith(url, GitProtoPrefix)
    THEN SubSeq(url, Len(GitProtoPrefix) + 1, Len(url))
    ELSE url

\* index of the owner segment: 0 behind a stripped prefix, 3 in a full URL
OwnerIndex(url) ==
    IF startsWith(url, GitAtPrefix) \/ startsWith(url, GitProtoPrefix)
    THEN 0 ELSE 3

\* s ends in t
EndsWith(s, t) ==
    Len(t) <= Len(s) /\ SubSeq(s, Len(s) - Len(t) + 1, Len(s)) = t

\* t occurs somewhere in s
Contains(s, t) ==
    \E i \in 1..(Len(s) - Len(t) + 1) : SubSeq(s, i, i + Len(t) - 1) = t

\* the repository of a started call has been looked at
Located == Started /\ pc # "stage1"

\* C13: a descriptor with type "git" and a non-empty url is valid (the
\* issue list is requested for its owner and name) exactly when it has 2
\* segments behind a stripped prefix, or 5 segments otherwise; owner is the
\* segment at index 0 (prefix) or 3 (full URL) and name is taken from the
\* next segment; any other descriptor is not valid and raises nothing.
C13_ValidIffSegmentCount ==
    Located
        => LET repo == entry.repository
               rest == AfterPrefix(repo.url)
               k == OwnerIndex(repo.url)
           IN  IF repo.present /\ repo.type = "git" /\ repo.url # <<>>
               THEN /\ calls.issues = 1 <=> SlashCount(rest) + 1 = k + 2
                    /\ calls.issues = 1 =>
                         /\ issuesUrl.owner = Segment(rest, k)
                         /\ startsWith(Segment(rest, k + 1), issuesUrl.name)
                         /\ ~Contains(Segment(rest, k + 1), DotGit)
                              => issuesUrl.name = Segment(rest, k + 1)
               ELSE /\ calls.issues = 0
                    /\ pc \in {"stage2", "stage3", "stage4", "done"}

C13_Witness ==
    /\ entry.repository.url = UrlGitProto
    /\ entry.repository.type = "git"
    /\ calls.issues = 1
    /\ issuesUrl = [owner |-> <<"o">>, name |-> <<"r">>]

\* C14: for a valid location the extracted name is the name segment
\* without its trailing ".git" when the segment ends in ".git", and the
\* name segment unchanged when it does not, also when ".git" occurs
\* elsewhere in the segment.
C14_OnlyTrailingDotGitStripped ==
    (Located /\ calls.issues = 1)
        => LET rest == AfterPrefix(entry.repository.url)
               segment == Segment(rest, OwnerIndex(entry.repository.url) + 1)
           IN  IF EndsWith(segment, DotGit)
               THEN issuesUrl.name
                       = SubSeq(segment, 1, Len(segment) - Len(DotGit))
               ELSE issuesUrl.name = segment

\* the call has ended: with the caller's callback or with an exception
Ended == pc \in {"done", "thrown"}

\* the issue list was received and holds an issue that is not open
IssuesHaveNonOpen ==
    /\ calls.issues = 1
    /\ ~responses.issues.error
    /\ responses.issues.body.kind = "array"
    /\ \E i \in 1..Len(responses.issues.body.list) :
          responses.issues.body.list[i] # "open"

\* a download series was received
SeriesReceived ==
    /\ ~responses.downloads.error
    /\ responses.downloads.body.kind = "object"
    /\ responses.downloads.body.has

\* a version map was received
VersionsReceived ==
    /\ ~responses.registry.error
    /\ responses.registry.body.kind = "object"
    /\ responses.registry.body.has

\* the registry holds 3 or more versions.  A registry that was never asked
\* is whatever the entry's registry holds, so it counts as holding them.
ThreeOrMoreVersions ==
    \/ responses.registry = NoOutcome
    \/ VersionsReceived /\ Len(responses.registry.body.list) >= 3

\* the caller received no error and a score strictly between 0 and 1 that
\* is the product of the three scores computed from the three responses:
\* (1 - open/total) * (1 - 1/downloads) * (1 - 1/versions)
DeliveredProduct ==
    LET issues == responses.issues.body.list
        t == Len(issues)
        o == Cardinality({i \in 1..t : issues[i] = "open"})
        d == Total(responses.downloads.body.list)
        v == Len(responses.registry.body.list)
    IN  /\ pc = "done" /\ cbCount = 1 /\ cbError = <<>>
        /\ cbScore.kind = "num"
        /\ 0 < cbScore.n /\ cbScore.n < cbScore.d
        /\ VersionsReceived
        /\ cbScore.n * (t * d * v) = ((t - o) * (d - 1) * (v - 1)) * cbScore.d

\* C15 as claimed: a valid repository whose issue list has a non-open
\* issue, a download series with a nonzero total and a registry with 3 or
\* more versions end with no error and a score strictly between 0 and 1
\* that equals the product of the three signal scores.
C15_NonzeroDownloadsGiveProduct ==
    (/\ Ended
     /\ IssuesHaveNonOpen
     /\ SeriesReceived /\ Total(responses.downloads.body.list) # 0
     /\ ThreeOrMoreVersions)
        => DeliveredProduct

\* C15 amended: the same with a download series whose total is at least 2.
C15_TwoOrMoreDownloadsGiveProduct ==
    (/\ Ended
     /\ IssuesHaveNonOpen
     /\ SeriesReceived /\ Total(responses.downloads.body.list) >= 2
     /\ ThreeOrMoreVersions)
        => DeliveredProduct

C15_Witness ==
    /\ pc = "done"
    /\ responses.issues.body.list = <<"open", "closed">>
    /\ responses.downloads.body.list = <<1, 1>>
    /\ SeriesReceived
    /\ VersionsReceived /\ Len(responses.registry.body.list) = 3
    /\ cbScore = Num(1, 6)

\* endpoints whose request has been issued and not yet answered
Outstanding ==
    {e \in {"issues", "downloads", "registry"} :
        calls[e] > 0 /\ responses[e] = NoOutcome}

\* C18: the three fetches of a call are strictly sequential: at most one
\* request is outstanding, each endpoint is requested at most once, the
\* download request follows the handling of the issue response and the
\* registry request that of the download response.
C18_FetchesAreSequential ==
    /\ Cardinality(Outstanding) <= 1
    /\ calls.issues <= 1 /\ calls.downloads <= 1 /\ calls.registry <= 1
    /\ calls.downloads > 0 =>
          /\ calls.issues = 1
          /\ responses.issues # NoOutcome
          /\ signals.issues # NoNumber
    /\ calls.registry > 0 =>
          /\ calls.downloads = 1
          /\ responses.downloads # NoOutcome
          /\ signals.downloads # NoNumber

C18_Witness ==
    /\ pc = "registryWait"
    /\ Outstanding = {"registry"}
    /\ calls.issues = 1 /\ calls.downloads = 1 /\ calls.registry = 1

\* the value both 1 - 1/n scorers give a count of zero, and the score the
\* caller then receives
ZeroCountScore == NegInf

\* C19: the zero count is resolved the same way in both 1 - 1/n scorers: a
\* download series summing to 0 and a present version map with 0 keys give
\* the same signal score, and a call reaching either with a positive
\* running product ends with the same outcome.
C19_ZeroCountsAgree ==
    /\ (SeriesReceived /\ Total(responses.downloads.body.list) = 0)
          => /\ signals.downloads = ZeroCountScore
             /\ pc \in {"stage3", "stage4", "done"}
             /\ pc = "done" =>
                  (cbCount = 1 /\ cbError = <<>> /\ cbScore = ZeroCountScore)
    /\ (VersionsReceived /\ Len(responses.registry.body.list) = 0)
          => /\ pc \in {"stage4", "done"}
             /\ pc = "done" =>
                  /\ signals.versions = ZeroCountScore
                  /\ cbCount = 1 /\ cbError = <<>>
                  /\ cbScore = ZeroCountScore

C19_Witness ==
    /\ pc = "done"
    /\ VersionsReceived /\ Len(responses.registry.body.list) = 0
    /\ SeriesReceived /\ Total(responses.downloads.body.list) = 2
    /\ signals.versions = NegInf
    /\ cbScore = NegInf

\* C20: whenever the caller receives a score strictly greater than 0, the
\* call made exactly one issue, one download and one registry request, all
\* three responses were parsed, and each of the three signal scores was
\* strictly positive.
C20_PositiveScoreNeedsAllThree ==
    (cbCount >= 1 /\ (IsPositive(cbScore) \/ cbScore.kind = "pinf"))
        => /\ calls.issues = 1 /\ calls.downloads = 1 /\ calls.registry = 1
           /\ ~responses.issues.error
           /\ responses.issues.body.kind = "array"
           /\ SeriesReceived
           /\ VersionsReceived
           /\ IsPositive(signals.issues)
           /\ IsPositive(signals.downloads)
           /\ IsPositive(signals.versions)

C20_Witness ==
    /\ pc = "done"
    /\ IsPositive(cbScore)
    /\ responses.registry.status = 404
    /\ calls = [issues |-> 1, downloads |-> 1, registry |-> 1, versions |-> 1]


\* ------------------------------------------------------ two calls at once
\* The claims below are about two calls; c is the record of one of them.

\* call c received an issue list with an issue in it
GotIssues(c) ==
    /\ c.calls.issues = 1
    /\ ~c.responses.issues.error
    /\ c.responses.issues.body.kind = "array"
    /\ Len(c.responses.issues.body.list) > 0

\* call c received a download series
GotSeries(c) ==
    /\ c.calls.downloads = 1
    /\ ~c.responses.downloads.error
    /\ c.responses.downloads.body.kind = "object"
    /\ c.responses.downloads.body.has

\* call c received a version map
GotVersions(c) ==
    /\ c.calls.registry = 1
    /\ ~c.responses.registry.error
    /\ c.responses.registry.body.kind = "object"
    /\ c.responses.registry.body.has

\* the open issues and all the issues call c received
OpenOf(c) ==
    Cardinality({i \in 1..Len(c.responses.issues.body.list) :
                    c.responses.issues.body.list[i] = "open"})
TotalOf(c) == Len(c.responses.issues.body.list)

\* both calls ended having received the same download series and the same
\* version map, and issue lists of which a's has the smaller open/total
\* ratio
SameSignalsSmallerRatio(a, b) ==
    /\ a.pc \in {"done", "thrown"} /\ b.pc \in {"done", "thrown"}
    /\ GotIssues(a) /\ GotIssues(b)
    /\ GotSeries(a) /\ GotSeries(b)
    /\ a.responses.downloads.body.list = b.responses.downloads.body.list
    /\ GotVersions(a) /\ GotVersions(b)
    /\ a.responses.registry.body.list = b.responses.registry.body.list
    /\ OpenOf(a) * TotalOf(b) < OpenOf(b) * TotalOf(a)

\* both callers received a score and no error, and a's is strictly greater
ScoredHigher(a, b) ==
    /\ a.pc = "done" /\ a.cbCount = 1 /\ a.cbError = <<>>
    /\ b.pc = "done" /\ b.cbCount = 1 /\ b.cbError = <<>>
    /\ a.cbScore.kind = "num" /\ b.cbScore.kind = "num"
    /\ a.cbScore.n * b.cbScore.d > b.cbScore.n * a.cbScore.d

\* C16 as claimed: of two runs that receive the same download series and
\* the same version map, the run whose issue list has the smaller
\* open/total ratio returns the strictly greater score.
C16_SmallerRatioScoresHigher ==
    SameSignalsSmallerRatio(CallState, parked)
        => ScoredHigher(CallState, parked)

\* C16 amended: the same when the version map holds at least 2 versions.
C16_SmallerRatioScoresHigherFromTwoVersions ==
    (/\ SameSignalsSmallerRatio(CallState, parked)
     /\ Len(responses.registry.body.list) >= 2)
        => ScoredHigher(CallState, parked)

C16_Witness ==
    /\ SameSignalsSmallerRatio(CallState, parked)
    /\ Len(responses.registry.body.list) >= 2
    /\ OpenOf(CallState) = 0
    /\ OpenOf(parked) = 1
    /\ IsPositive(parked.cbScore)

\* What one call alone returns for entry e when the three endpoints answer
\* r: an error, a score, or nothing because an exception escaped.
Failed(error) == [kind |-> "error", error |-> error, score |-> NoNumber]
Scored(score) == [kind |-> "score", error |-> <<>>, score |-> score]
Escaped == [kind |-> "none", error |-> <<>>, score |-> NoNumber]

SoloFourth(quality, response) ==
    IF ~GreaterThanZero(quality) THEN Scored(quality)
    ELSE IF response.kind # "object" THEN Escaped
    ELSE Scored(jsMul(quality, estimateVersions(Versions(response))))

SoloThird(r, quality) ==
    IF ~GreaterThanZero(quality) THEN SoloFourth(quality, JsonNull)
    ELSE LET c == RegistryCallback(r.registry, quality)
         IN  IF c.kind = "next" THEN SoloFourth(c.quality, c.response)
             ELSE Escaped

SoloSecond(e, r, quality) ==
    IF ~GreaterThanZero(quality) THEN SoloThird(r, quality)
    ELSE LET c == DownloadsCallback(r.downloads, e.name)
         IN  IF c.kind = "next"
             THEN SoloThird(r, jsMul(quality, c.quality))
             ELSE IF c.kind = "error" THEN Failed(c.error)
             ELSE Escaped

SoloOutcome(e, r) ==
    IF NameMissing(e)
    THEN Failed(<<JSONstringify(e), " is null or has no name">>)
    ELSE IF ~extractRepoInfo(e.repository).valid
    THEN SoloSecond(e, r, Zero)
    ELSE LET c == IssuesCallback(r.issues)
         IN  IF c.kind = "next" THEN SoloSecond(e, r, c.quality)
             ELSE IF c.kind = "error" THEN Failed(c.error)
             ELSE Escaped

\* what call c returned
OutcomeOf(c) ==
    IF c.pc = "thrown" THEN Escaped
    ELSE IF c.cbError # <<>> THEN Failed(c.cbError)
    ELSE Scored(c.cbScore)

\* C17: of two calls for different entries whose callbacks interleave in
\* any order, each that has ended returned, once, what it returns alone
\* for its entry and the responses it received.
C17_ConcurrentCallsAreIndependent ==
    \A c \in {CallState, parked} :
        c.pc \in {"done", "thrown"}
            => /\ OutcomeOf(c) = SoloOutcome(c.entry, c.responses)
               /\ c.pc = "done" => c.cbCount = 1

\* one call has returned a positive score while the other, started before
\* it, is still waiting for its registry response
C17_Witness ==
    /\ active = 2
    /\ pc = "done"
    /\ IsPositive(cbScore)
    /\ parked.pc = "registryWait"
    /\ parked.q # cbScore
    /\ C17_ConcurrentCallsAreIndependent

====
